---- MODULE Spec2Model ----
(***************************************************************************)
(* Fare aggregation pipeline of weirdFlights: the two scrapers             *)
(* (flynorse/norse_scraper.py, flyscoot/scoot_scraper.py), the merger      *)
(* (merge_flights.py) and the daily driver (daily_scrape.py).              *)
(*                                                                         *)
(* The specifications of the module share its variables:                   *)
(*   SpecParse    one application of parse_lowfare_response to a raw       *)
(*                response drawn from a bounded universe;                  *)
(*   SpecRecord   the same on a short response with arbitrary fields;      *)
(*   SpecConvert  convert_price and the Scoot parser in every currency;    *)
(*   SpecRoute,   the window loop of scrape_route of either scraper;       *)
(*   SpecPlan                                                              *)
(*   SpecPipe     the file system, the scraper and merger runs and the     *)
(*                daily driver;                                            *)
(*   SpecDaily    the daily driver with writes that fail.                  *)
(***************************************************************************)
EXTENDS Integers, Sequences, FiniteSets, TLC

VARIABLES
    \* ---- SpecParse
    presp,          \* the raw response handed to the parser
    pout,           \* what the parser returned: [flights, raised]
    ppc,            \* "input" | "parsed"
    \* ---- SpecRoute
    airline,        \* which scraper's scrape_route runs: "norse" | "scoot"
    today,          \* datetime.now() taken at the top of scrape_route: <<y, m, d>>
    months_ahead,   \* the argument of scrape_route
    month_offset,   \* the loop variable
    all_flights,    \* the accumulator of scrape_route
    requests,       \* the windows for which search_lowfare was called, in order
    outcomes,       \* what each call of search_lowfare produced, in order
    sleeps,         \* the time.sleep calls so far, in tenths of a second: the one
                    \* after each request (0 when none was made), then the one
                    \* scrape_all_routes makes after the route
    returned,       \* the value scrape_route returned
    upstream,       \* what the upstream may answer a request with during this call
    rpc,            \* "loop" | "done"
    \* ---- SpecPipe
    day,            \* the date datetime.now() gave when it was read last
    files,          \* the file system: path -> [exists, text]
    modified,       \* the existing files in the order of their st_mtime, oldest first
    job,            \* the process that runs: a scraper's main or the merger's main
    daily,          \* daily_scrape.main: its position and its results
    runs,           \* the number of processes started so far
    merges,         \* what the last two merger runs wrote
    touched,        \* a scraper was started since the last merger run
    faults          \* the number of writes that raised so far

parseVars == <<presp, pout, ppc>>
routeVars == <<airline, today, months_ahead, month_offset, all_flights,
               requests, outcomes, sleeps, returned, upstream, rpc>>
pipeVars == <<day, files, modified, job, daily, runs, merges, touched, faults>>
vars == <<parseVars, routeVars, pipeVars>>

-----------------------------------------------------------------------------
(* Bounds of the model *)

\* the most fare entries one raw response carries
MaxEntries == 2
\* the largest months_ahead scrape_route is called with
MaxMonths == 3
\* the number of calendar years 'today' is drawn from
NumYears == 3
\* the first of these years
FirstYear == 2026
\* the number of run dates of the pipeline specification
MaxDay == 2
\* the number of processes it starts
MaxRuns == 3
MaxFaults == 2
BufferTokens == 2
MaxPrice == 40
\* the most fare entries a response of the record specification carries
MaxRecordEntries == 1
\* the number of windows (months) a scraper run of it queries
PipeWindows == 1

-----------------------------------------------------------------------------
(* Optional values: None is the empty tuple, a value v is <<v>> *)

None == <<>>
Some(v) == <<v>>
IsNone(x) == x = <<>>
Val(x) == x[1]

(* Strings that the code slices are tuples of units; a date unit stands   *)
(* for the 10 characters YYYY-MM-DD, "T" for one, a time unit for eight.  *)
EmptyStr == <<>>
D1 == "2026-01-09"
D2 == "2026-01-10"
TimeUnit == "00:00:00"
UnitLen(u) == IF u = "T" THEN 1 ELSE IF u = TimeUnit THEN 8 ELSE 10

RECURSIVE StrLen(_)
StrLen(s) == IF s = <<>> THEN 0 ELSE UnitLen(Head(s)) + StrLen(Tail(s))

\* s[:n] on whole units
RECURSIVE Slice(_, _)
Slice(s, n) ==
    IF s = <<>> \/ UnitLen(Head(s)) > n THEN <<>>
    ELSE <<Head(s)>> \o Slice(Tail(s), n - UnitLen(Head(s)))

\* s.split("T")[0]
RECURSIVE BeforeT(_)
BeforeT(s) ==
    IF s = <<>> \/ Head(s) = "T" THEN <<>> ELSE <<Head(s)>> \o BeforeT(Tail(s))

HasT(s) == \E i \in 1..Len(s) : s[i] = "T"

DateStrs == { EmptyStr, <<D1, "T", TimeUnit>>, <<D2, "T", TimeUnit>> }

\* prices in hundredths: 493.57 is 49357, 494 is 49400, 0.40 is 40
FareTotals == { None, Some(49357), Some(40) }
RoundedTotals == { None, Some(49400), Some(0) }

RECURSIVE Concat(_)
Concat(ss) == IF ss = <<>> THEN <<>> ELSE Head(ss) \o Concat(Tail(ss))

\* how many entries the two lists of a response hold
EntryCounts == { c \in (0..MaxEntries) \X (0..MaxEntries) : c[1] + c[2] <= MaxEntries }

-----------------------------------------------------------------------------
(* Raw responses *)

\* an entry that is not the object the parser expects (wrong type)
GarbledFare == [shape |-> "garbled"]

NorseFares ==
    [shape : {"dict"}, departureDate : DateStrs, fareTotal : FareTotals,
     roundedFareTotal : RoundedTotals, isSaleFare : {FALSE}]
    \cup {GarbledFare}

NorseCityPairs == { [origin |-> "LGW", destination |-> "BKK"],
                    [origin |-> "", destination |-> "BKK"] }

NorseData(pair, fs) ==
    [cityPair |-> pair,
     cabins |-> << [cabinName |-> "Economy", lowFareAmounts |-> fs[1]],
                   [cabinName |-> "Premium", lowFareAmounts |-> fs[2]] >>]

NorseResponse(pair, economy, premium) ==
    [data |-> <<NorseData(pair, <<economy, premium>>)>>]

NorseEmptyResponse == [data |-> <<>>]

ScootFares ==
    [shape : {"dict"}, departureDate : DateStrs, totalAmount : FareTotals,
     noFlights : BOOLEAN, soldOut : BOOLEAN]
    \cup {GarbledFare}

ScootResponse(first, second) ==
    [lowFareSearchMarkets |-> << [lowFares |-> first], [lowFares |-> second] >>]

-----------------------------------------------------------------------------
(* NorseScraper.parse_lowfare_response *)

NorseFlight(origin, destination, departure_date, price, currency, cabin_name, is_sale) ==
    [airline |-> "norse", origin |-> origin, destination |-> destination,
     departure_date |-> departure_date, price |-> price, currency |-> currency,
     booking_url |-> <<origin, destination, departure_date, cabin_name>>,
     is_sale_fare |-> is_sale]

\* the body of the innermost loop: the flights it appends, or an exception
NorseParseFareKeepsNull(fare, origin, destination, cabin_name, currency) ==
    IF fare.shape # "dict" THEN [flights |-> <<>>, raised |-> TRUE]
    ELSE LET departure_date == Slice(fare.departureDate, 10)
             price == IF ~IsNone(fare.roundedFareTotal) /\ Val(fare.roundedFareTotal) # 0
                      THEN Val(fare.roundedFareTotal)
                      ELSE IF IsNone(fare.fareTotal) THEN 0 ELSE Val(fare.fareTotal)
         IN IF departure_date = EmptyStr THEN [flights |-> <<>>, raised |-> FALSE]
            ELSE [flights |-> << NorseFlight(origin, destination, departure_date,
                                             price, currency, cabin_name,
                                             fare.isSaleFare) >>,
                  raised |-> FALSE]

NorseParseFare(fare, origin, destination, cabin_name, currency) ==
    IF fare.shape # "dict" THEN [flights |-> <<>>, raised |-> TRUE]
    ELSE IF IsNone(fare.fareTotal) THEN [flights |-> <<>>, raised |-> FALSE]
    ELSE LET price == IF ~IsNone(fare.roundedFareTotal) /\ Val(fare.roundedFareTotal) # 0
                      THEN Val(fare.roundedFareTotal)
                      ELSE Val(fare.fareTotal)
             departure_date == Slice(fare.departureDate, 10)
         IN IF departure_date = EmptyStr THEN [flights |-> <<>>, raised |-> FALSE]
            ELSE [flights |-> << NorseFlight(origin, destination, departure_date,
                                             price, currency, cabin_name,
                                             fare.isSaleFare) >>,
                  raised |-> FALSE]

\* for fare in cabin.get("lowFareAmounts", [])
RECURSIVE NorseParseFares(_, _, _, _, _)
NorseParseFares(fares, origin, destination, cabin_name, currency) ==
    IF fares = <<>> THEN [flights |-> <<>>, raised |-> FALSE]
    ELSE LET one == NorseParseFare(Head(fares), origin, destination, cabin_name, currency)
         IN IF one.raised THEN one
            ELSE LET rest == NorseParseFares(Tail(fares), origin, destination,
                                             cabin_name, currency)
                 IN [flights |-> one.flights \o rest.flights, raised |-> rest.raised]

\* for cabin in city_pair_data.get("cabins", [])
RECURSIVE NorseParseCabins(_, _, _, _)
NorseParseCabins(cabins, origin, destination, currency) ==
    IF cabins = <<>> THEN [flights |-> <<>>, raised |-> FALSE]
    ELSE LET one == NorseParseFares(Head(cabins).lowFareAmounts, origin, destination,
                                    Head(cabins).cabinName, currency)
         IN IF one.raised THEN one
            ELSE LET rest == NorseParseCabins(Tail(cabins), origin, destination, currency)
                 IN [flights |-> one.flights \o rest.flights, raised |-> rest.raised]

\* for city_pair_data in data
RECURSIVE NorseParseData(_, _)
NorseParseData(data, currency) ==
    IF data = <<>> THEN [flights |-> <<>>, raised |-> FALSE]
    ELSE LET origin == Head(data).cityPair.origin
             destination == Head(data).cityPair.destination
             one == IF origin = "" \/ destination = ""
                    THEN [flights |-> <<>>, raised |-> FALSE]
                    ELSE NorseParseCabins(Head(data).cabins, origin, destination, currency)
         IN IF one.raised THEN one
            ELSE LET rest == NorseParseData(Tail(data), currency)
                 IN [flights |-> one.flights \o rest.flights, raised |-> rest.raised]

\* the whole function: an exception leaves it without a return value
NorseParse(response, currency) ==
    LET r == NorseParseData(response.data, currency)
    IN IF r.raised THEN [flights |-> <<>>, raised |-> TRUE] ELSE r

-----------------------------------------------------------------------------
(* ScootScraper.convert_price and ScootScraper.parse_lowfare_response *)

\* EXCHANGE_RATES, in hundredths of a Singapore dollar
RateSGD == 100
RateUSD == 75
RateEUR == 68
RateGBP == 57
EXCHANGE_RATES == [SGD |-> RateSGD, USD |-> RateUSD, EUR |-> RateEUR, GBP |-> RateGBP]

\* round(n / d) to the nearest integer, a tie going to the even one
RoundDiv(n, d) ==
    LET q == n \div d
        r == n % d
    IN IF 2 * r < d THEN q
       ELSE IF 2 * r > d THEN q + 1
       ELSE IF q % 2 = 0 THEN q ELSE q + 1

convert_price_from_base(price, from_currency) ==
    [price_usd |-> RoundDiv(price * EXCHANGE_RATES["USD"], EXCHANGE_RATES["SGD"]),
     price_eur |-> RoundDiv(price * EXCHANGE_RATES["EUR"], EXCHANGE_RATES["SGD"]),
     price_gbp |-> RoundDiv(price * EXCHANGE_RATES["GBP"], EXCHANGE_RATES["SGD"])]

\* convert_price falling back to a currency other than SGD
convert_price_fallback_usd(price, from_currency) ==
    LET from == IF from_currency \in DOMAIN EXCHANGE_RATES THEN from_currency ELSE "USD"
    IN [price_usd |-> RoundDiv(price * EXCHANGE_RATES["USD"], EXCHANGE_RATES[from]),
        price_eur |-> RoundDiv(price * EXCHANGE_RATES["EUR"], EXCHANGE_RATES[from]),
        price_gbp |-> RoundDiv(price * EXCHANGE_RATES["GBP"], EXCHANGE_RATES[from])]

\* amounts in hundredths: round(price / rate[from] * rate[to], 2)
convert_price(price, from_currency) ==
    LET from == IF from_currency \in DOMAIN EXCHANGE_RATES THEN from_currency ELSE "SGD"
    IN [price_usd |-> RoundDiv(price * EXCHANGE_RATES["USD"], EXCHANGE_RATES[from]),
        price_eur |-> RoundDiv(price * EXCHANGE_RATES["EUR"], EXCHANGE_RATES[from]),
        price_gbp |-> RoundDiv(price * EXCHANGE_RATES["GBP"], EXCHANGE_RATES[from])]

ScootFlight(origin, destination, departure_date, price, currency) ==
    LET converted_prices == convert_price(price, currency)
    IN [airline |-> "scoot", origin |-> origin, destination |-> destination,
        departure_date |-> departure_date, price |-> price, currency |-> currency,
        booking_url |-> <<origin, destination, departure_date>>,
        is_sale_fare |-> FALSE,
        price_usd |-> converted_prices.price_usd,
        price_eur |-> converted_prices.price_eur,
        price_gbp |-> converted_prices.price_gbp]

\* the body of the inner loop: the flights it appends, or an exception
ScootParseFare(fare, origin, destination, currency) ==
    IF fare.shape # "dict" THEN [flights |-> <<>>, raised |-> TRUE]
    ELSE IF IsNone(fare.totalAmount) THEN [flights |-> <<>>, raised |-> FALSE]
    ELSE IF fare.noFlights \/ fare.soldOut THEN [flights |-> <<>>, raised |-> FALSE]
    ELSE IF fare.departureDate = EmptyStr THEN [flights |-> <<>>, raised |-> FALSE]
    ELSE LET departure_date == IF HasT(fare.departureDate)
                               THEN BeforeT(fare.departureDate)
                               ELSE fare.departureDate
         IN [flights |-> << ScootFlight(origin, destination, departure_date,
                                        Val(fare.totalAmount), currency) >>,
             raised |-> FALSE]

\* for fare in low_fares: an exception ends the loop, the flights appended
\* before it are kept
RECURSIVE ScootParseFares(_, _, _, _)
ScootParseFares(fares, origin, destination, currency) ==
    IF fares = <<>> THEN [flights |-> <<>>, raised |-> FALSE]
    ELSE LET one == ScootParseFare(Head(fares), origin, destination, currency)
         IN IF one.raised THEN one
            ELSE LET rest == ScootParseFares(Tail(fares), origin, destination, currency)
                 IN [flights |-> one.flights \o rest.flights, raised |-> rest.raised]

\* for market in markets
RECURSIVE ScootParseMarkets(_, _, _, _)
ScootParseMarkets(markets, origin, destination, currency) ==
    IF markets = <<>> THEN [flights |-> <<>>, raised |-> FALSE]
    ELSE LET one == ScootParseFares(Head(markets).lowFares, origin, destination, currency)
         IN IF one.raised THEN one
            ELSE LET rest == ScootParseMarkets(Tail(markets), origin, destination, currency)
                 IN [flights |-> one.flights \o rest.flights, raised |-> rest.raised]

\* the whole function: the try/except around the loops returns what was
\* appended before an exception, and never raises itself
ScootParse(response, origin, destination, currency) ==
    LET r == ScootParseMarkets(response.lowFareSearchMarkets, origin, destination, currency)
    IN [flights |-> r.flights, raised |-> FALSE]

-----------------------------------------------------------------------------
(* The calendar of datetime: dates are <<year, month, day>> *)

IsLeap(y) == (y % 4 = 0 /\ y % 100 # 0) \/ y % 400 = 0

DaysInMonth(y, m) ==
    IF m \in {4, 6, 9, 11} THEN 30
    ELSE IF m = 2 THEN (IF IsLeap(y) THEN 29 ELSE 28)
    ELSE 31

DaysBeforeYear(y) ==
    (y - 1) * 365 + (y - 1) \div 4 - (y - 1) \div 100 + (y - 1) \div 400

RECURSIVE DaysBeforeMonth(_, _)
DaysBeforeMonth(y, m) ==
    IF m = 1 THEN 0 ELSE DaysBeforeMonth(y, m - 1) + DaysInMonth(y, m - 1)

\* date.toordinal()
ToOrdinal(date) == DaysBeforeYear(date[1]) + DaysBeforeMonth(date[1], date[2]) + date[3]

RECURSIVE YearOfOrdinal(_, _)
YearOfOrdinal(n, y) == IF DaysBeforeYear(y + 1) >= n THEN y ELSE YearOfOrdinal(n, y + 1)

RECURSIVE MonthOfOrdinal(_, _, _)
MonthOfOrdinal(n, y, m) ==
    IF m = 12 \/ DaysBeforeMonth(y, m + 1) >= n THEN m ELSE MonthOfOrdinal(n, y, m + 1)

\* date.fromordinal(n)
FromOrdinal(n) ==
    LET y == YearOfOrdinal(n, (n - 1) \div 366 + 1)
        inYear == n - DaysBeforeYear(y)
        m == MonthOfOrdinal(inYear, y, 1)
    IN <<y, m, inYear - DaysBeforeMonth(y, m)>>

\* date - timedelta(days=k), date + timedelta(days=k)
MinusDays(date, k) == FromOrdinal(ToOrdinal(date) - k)
PlusDays(date, k) == FromOrdinal(ToOrdinal(date) + k)

\* max(a, b) of two datetimes: the first one unless the second is later
DateMax(a, b) == IF ToOrdinal(b) > ToOrdinal(a) THEN b ELSE a

Years == FirstYear .. (FirstYear + NumYears - 1)
Todays == { <<y, m, d>> : y \in Years, m \in 1..12, d \in 1..31 } \ 
          { <<y, m, d>> \in Years \X (1..12) \X (1..31) : d > DaysInMonth(y, m) }

-----------------------------------------------------------------------------
(* The window planning at the top of the loop body of scrape_route *)

WindowYearNoRollover(now, offset) == now[1]

\* year = today.year + (today.month + month_offset - 1) // 12
WindowYear(now, offset) == now[1] + (now[2] + offset - 1) \div 12

\* month = (today.month + month_offset - 1) % 12 + 1
WindowMonth(now, offset) == ((now[2] + offset - 1) % 12) + 1

\* NorseScraper: [start_date, end_date] of the window of month_offset
NorseWindow(now, offset) ==
    LET year == WindowYear(now, offset)
        month == WindowMonth(now, offset)
        first == <<year, month, 1>>
        end_date == IF month = 12 THEN MinusDays(<<year + 1, 1, 1>>, 1)
                    ELSE MinusDays(<<year, month + 1, 1>>, 1)
        start_date == IF offset = 0 THEN DateMax(first, now) ELSE first
    IN [start_date |-> start_date, end_date |-> end_date]

\* the look-around radius ScootScraper.scrape_route passes to search_lowfare
DaysAround == 7
\* the day of the month it centres a query on
CentreDay == 15

\* ScootScraper: the point query of month_offset
ScootWindow(now, offset) ==
    LET year == WindowYear(now, offset)
        month == WindowMonth(now, offset)
        search_date == IF offset = 0 /\ now[3] > CentreDay THEN now
                       ELSE <<year, month, CentreDay>>
    IN [departure_date |-> search_date, days_forward |-> DaysAround,
        days_backward |-> DaysAround]

-----------------------------------------------------------------------------
(* What search_lowfare can produce: a raw response, or an exception       *)
(* (raise_for_status on a non-2xx answer, or a transport error)            *)

HttpError == [kind |-> "http_error", status |-> 403]
TransportError == [kind |-> "error"]
Ok(response) == [kind |-> "ok", response |-> response]

NFare(date, total, rounded) ==
    [shape |-> "dict", departureDate |-> date, fareTotal |-> total,
     roundedFareTotal |-> rounded, isSaleFare |-> FALSE]

SFare(date, total, sold) ==
    [shape |-> "dict", departureDate |-> date, totalAmount |-> total,
     noFlights |-> FALSE, soldOut |-> sold]

Day1 == <<D1, "T", TimeUnit>>
Day2 == <<D2, "T", TimeUnit>>
LgwBkk == [origin |-> "LGW", destination |-> "BKK"]

\* the answers the route and pipeline specifications draw from
NorseRouteResponses ==
    { [data |-> <<NorseData(LgwBkk, << <<NFare(Day1, Some(49357), Some(49400))>>, <<>> >>)>>],
      [data |-> <<NorseData(LgwBkk, << <<NFare(Day1, Some(49357), None)>>,
                                       <<NFare(Day1, Some(49357), Some(49400))>> >>)>>],
      [data |-> <<NorseData(LgwBkk, << <<NFare(Day2, Some(49357), None),
                                         NFare(Day1, None, None)>>, <<>> >>)>>],
      [data |-> <<NorseData(LgwBkk, << <<NFare(Day1, Some(49357), None), GarbledFare>>,
                                       <<>> >>)>>] }

ScootRouteResponses ==
    { [lowFareSearchMarkets |-> << [lowFares |-> <<SFare(Day1, Some(49357), FALSE)>>] >>],
      [lowFareSearchMarkets |-> << [lowFares |-> <<SFare(Day1, Some(49357), FALSE)>>],
                                   [lowFares |-> <<SFare(Day1, Some(49357), FALSE)>>] >>],
      [lowFareSearchMarkets |-> << [lowFares |-> <<SFare(Day2, Some(49357), FALSE),
                                                   SFare(Day1, Some(49357), TRUE)>>] >>],
      [lowFareSearchMarkets |-> << [lowFares |-> <<SFare(Day1, Some(49357), FALSE),
                                                   GarbledFare>>] >>] }

RouteOutcomes(line) ==
    {HttpError, TransportError} \cup
    { Ok(r) : r \in IF line = "norse" THEN NorseRouteResponses ELSE ScootRouteResponses }

\* the currency each main passes down
NorseCurrency == "GBP"
ScootCurrency == "SGD"
\* the route the Scoot scrape_route of the model is called for
ScootOrigin == "SIN"
ScootDestination == "BKK"
NorseOrigin == "LGW"
NorseDestination == "BKK"

-----------------------------------------------------------------------------
(* The try/except of the loop body of scrape_route: all_flights after the  *)
(* window whose request produced outcome                                   *)

NorseAfterWindowForgets(flights, outcome, currency) ==
    IF outcome.kind # "ok" THEN <<>>
    ELSE LET r == NorseParse(outcome.response, currency)
         IN IF r.raised THEN flights ELSE flights \o r.flights

NorseAfterWindow(flights, outcome, currency) ==
    IF outcome.kind # "ok" THEN flights
    ELSE LET r == NorseParse(outcome.response, currency)
         IN IF r.raised THEN flights ELSE flights \o r.flights

ScootAfterWindow(flights, outcome, origin, destination, currency) ==
    IF outcome.kind # "ok" THEN flights
    ELSE flights \o ScootParse(outcome.response, origin, destination, currency).flights

\* time.sleep(0.5), the last statement of the try block, and time.sleep(1) of
\* scrape_all_routes, in tenths of a second
RateLimitDelay == 5
RouteDelay == 10

\* the sleep of the loop body after the window whose request produced outcome
NorseSleepAfter(outcome, currency) ==
    IF outcome.kind # "ok" THEN 0
    ELSE IF NorseParse(outcome.response, currency).raised THEN 0 ELSE RateLimitDelay

ScootSleepAfter(outcome) == IF outcome.kind # "ok" THEN 0 ELSE RateLimitDelay

-----------------------------------------------------------------------------
(* The file system the scrapers and the merger share *)

Root == ""
NorseDir == "flynorse/"
Json == ".json"

\* a path is a directory, the head of the file name, the run date in it
\* (0 when the name holds none) and the extension
Path(dir, head, date) == [dir |-> dir, head |-> head, date |-> date, ext |-> Json]

Days == 1..MaxDay

\* the two working directories a Norse run is started from, the one of Scoot
\* and merger runs
Paths ==
    { Path(Root, "flights", 0), Path(NorseDir, "flights", 0) } \cup
    { Path(Root, "scoot_flights_", d) : d \in Days } \cup
    { Path(dir, "norse_flights_", d) : dir \in {Root, NorseDir}, d \in Days }

\* dated_filename = f"<source>_flights_{today}.json", relative to the working directory
FilePrefix(prog) == IF prog = "scoot" THEN "scoot_flights_" ELSE "norse_flights_"

DatedName(prog, cwd, now) == Path(cwd, FilePrefix(prog), now)

\* current_filename = "flights.json", relative to the working directory
CurrentName(cwd) == Path(cwd, "flights", 0)

\* json.dump(flights, f): the text is "[", the records, "]"
Tok(t) == [tok |-> t]
RecTok(r) == [tok |-> "rec", rec |-> r]
Serialize(flights) ==
    <<Tok("[")>> \o [i \in 1..Len(flights) |-> RecTok(flights[i])] \o <<Tok("]")>>

\* the text is a whole JSON list
Complete(text) ==
    /\ Len(text) >= 2 /\ text[1] = Tok("[") /\ text[Len(text)] = Tok("]")
    /\ \A i \in 2..(Len(text) - 1) : text[i].tok = "rec"

\* json.load(f)
Decode(text) == [i \in 1..(Len(text) - 2) |-> text[i + 1].rec]

NoFile == [exists |-> FALSE, text |-> <<>>]

\* load_json_file: [] when the file is missing or is no JSON
load_json_file(fs, path) ==
    IF ~fs[path].exists \/ ~Complete(fs[path].text) THEN <<>>
    ELSE Decode(fs[path].text)

\* glob.glob(pattern): pattern is <dir><head>*<ext>, "*" never matching a "/"
Pattern(dir, head) == [dir |-> dir, head |-> head, ext |-> Json]
Glob(fs, pattern) ==
    { p \in Paths : /\ fs[p].exists
                    /\ p.dir = pattern.dir
                    /\ pattern.head = "" \/ p.head = pattern.head
                    /\ p.ext = pattern.ext }

\* the place of a file in the order of modification times
MTime(order, path) == CHOOSE i \in 1..Len(order) : order[i] = path

\* find_latest_file: None, or the match modified last
find_latest_file(fs, order, pattern) ==
    IF Glob(fs, pattern) = {} THEN None
    ELSE Some(CHOOSE p \in Glob(fs, pattern) :
                \A q \in Glob(fs, pattern) : MTime(order, q) <= MTime(order, p))

ScootPattern == Pattern(Root, "scoot_flights_")
NorsePatternAnyJson == Pattern(NorseDir, "")
NorsePattern == Pattern(NorseDir, "norse_flights_")

\* merge_flights(): the files it loads and the list it returns
MergeSources(fs, order) ==
    [scoot |-> find_latest_file(fs, order, ScootPattern),
     norse |-> find_latest_file(fs, order, NorsePattern)]

merge_flights_dedup(fs, order) ==
    LET src == MergeSources(fs, order)
        scoot_flights == IF IsNone(src.scoot) THEN <<>> ELSE load_json_file(fs, Val(src.scoot))
        norse_flights == IF IsNone(src.norse) THEN <<>> ELSE load_json_file(fs, Val(src.norse))
        Same(a, b) == /\ a.origin = b.origin /\ a.destination = b.destination
                      /\ a.departure_date = b.departure_date
    IN scoot_flights \o
       SelectSeq(norse_flights,
                 LAMBDA n : \A i \in DOMAIN scoot_flights : ~Same(scoot_flights[i], n))

merge_flights_needs_both(fs, order) ==
    LET src == MergeSources(fs, order)
    IN IF IsNone(src.scoot) \/ IsNone(src.norse) THEN <<>>
       ELSE load_json_file(fs, Val(src.scoot)) \o load_json_file(fs, Val(src.norse))

merge_flights(fs, order) ==
    LET src == MergeSources(fs, order)
        scoot_flights == IF IsNone(src.scoot) THEN <<>> ELSE load_json_file(fs, Val(src.scoot))
        norse_flights == IF IsNone(src.norse) THEN <<>> ELSE load_json_file(fs, Val(src.norse))
    IN scoot_flights \o norse_flights

\* save_merged_flights: output_files
OutputFiles == << Path(Root, "flights", 0), Path(NorseDir, "flights", 0) >>

\* open(path, "w"): the file exists, is empty and is the one modified last
Truncate(fs, path) == [fs EXCEPT ![path] = [exists |-> TRUE, text |-> <<>>]]
Touch(order, path) == Append(SelectSeq(order, LAMBDA q : q # path), path)

\* the text of the file after the writer's buffer was flushed up to token k
Flush(fs, path, text, k) == [fs EXCEPT ![path].text = SubSeq(text, 1, k)]

\* f.write fills the buffer of the file object; the buffer goes to the file
\* when it is full and at the close: the token up to which the next flush
\* writes, have tokens being in the file
NextFlush(text, have) ==
    IF have + BufferTokens < Len(text) THEN have + BufferTokens ELSE Len(text)

-----------------------------------------------------------------------------
(* scrape_all_routes of either scraper, on the answers its requests get:   *)
(* answers[i] is the outcome of the i-th window of the one route of the    *)
(* model                                                                   *)

\* both cabins offer a fare for the same day; both markets do
NorsePipeResponses ==
    { [data |-> <<NorseData([origin |-> "SIN", destination |-> "BKK"],
                            << <<NFare(Day1, Some(49357), Some(49400))>>,
                               <<NFare(Day1, Some(49357), None)>> >>)>>] }

ScootPipeResponses ==
    { [lowFareSearchMarkets |-> << [lowFares |-> <<SFare(Day1, Some(49357), FALSE)>>],
                                   [lowFares |-> <<SFare(Day1, Some(49357), FALSE)>>] >>] }

PipeOutcomes(prog) ==
    {HttpError} \cup
    { Ok(r) : r \in IF prog = "norse" THEN NorsePipeResponses ELSE ScootPipeResponses }

RECURSIVE scrape_route(_, _, _)
scrape_route(prog, answers, flights) ==
    IF answers = <<>> THEN flights
    ELSE scrape_route(prog, Tail(answers),
                      IF prog = "norse"
                      THEN NorseAfterWindow(flights, Head(answers), NorseCurrency)
                      ELSE ScootAfterWindow(flights, Head(answers), ScootOrigin,
                                            ScootDestination, ScootCurrency))

scrape_all_routes(prog, answers) == scrape_route(prog, answers, <<>>)

-----------------------------------------------------------------------------
(* The processes *)

NoJob ==
    [prog |-> "none", cwd |-> Root, by |-> "none", pc |-> "off", flights |-> <<>>,
     rundate |-> 0, targets |-> <<>>, failed |-> FALSE, out |-> <<>>,
     saved |-> <<>>, all_success |-> TRUE, status |-> 0]

NoMerges == [prev |-> None, cur |-> None, fresh |-> FALSE]

NoDaily == [pc |-> "off", results |-> <<>>, scraped |-> <<>>, sinks |-> {}, code |-> 0]

PipeIdle ==
    /\ day = 0 /\ files = <<>> /\ modified = <<>> /\ job = NoJob
    /\ daily = NoDaily
    /\ runs = 0 /\ merges = NoMerges /\ touched = FALSE /\ faults = 0

-----------------------------------------------------------------------------
(* SpecParse: one call of parse_lowfare_response *)

NoOutput == [flights |-> <<>>, raised |-> FALSE]

ParseIdle == presp = [src |-> "none"] /\ pout = NoOutput /\ ppc = "off"

RouteIdle ==
    /\ airline = "none" /\ today = <<0, 0, 0>> /\ months_ahead = 0 /\ month_offset = 0
    /\ all_flights = <<>> /\ requests = <<>> /\ outcomes = <<>> /\ returned = <<>>
    /\ sleeps = <<>>
    /\ upstream = {} /\ rpc = "off"

ParseInit ==
    /\ \E c \in EntryCounts :
          \/ \E pair \in NorseCityPairs :
             \E economy \in [1..c[1] -> NorseFares], premium \in [1..c[2] -> NorseFares] :
                presp = [src |-> "norse", response |-> NorseResponse(pair, economy, premium)]
          \/ presp = [src |-> "norse", response |-> NorseEmptyResponse]
          \/ \E first \in [1..c[1] -> ScootFares], second \in [1..c[2] -> ScootFares] :
                presp = [src |-> "scoot", response |-> ScootResponse(first, second)]
    /\ pout = NoOutput
    /\ ppc = "input"
    /\ RouteIdle
    /\ PipeIdle

NorseParseCall ==
    /\ ppc = "input" /\ presp.src = "norse"
    /\ pout' = NorseParse(presp.response, NorseCurrency)
    /\ ppc' = "parsed"
    /\ UNCHANGED <<presp, routeVars, pipeVars>>

ScootParseCall ==
    /\ ppc = "input" /\ presp.src = "scoot"
    /\ pout' = ScootParse(presp.response, ScootOrigin, ScootDestination, ScootCurrency)
    /\ ppc' = "parsed"
    /\ UNCHANGED <<presp, routeVars, pipeVars>>

ParseNext == NorseParseCall \/ ScootParseCall

SpecParse == ParseInit /\ [][ParseNext]_vars

\* SpecConvert: convert_price on every price up to MaxPrice hundredths in
\* every currency, one not in the table included, and the Scoot parser on one
\* entry in each of these currencies
Prices == 0..MaxPrice
Currencies == DOMAIN EXCHANGE_RATES \cup {"JPY"}

ConvertInit ==
    /\ \/ \E price \in Prices, currency \in Currencies :
            presp = [src |-> "convert", price |-> price, currency |-> currency]
       \/ \E fare \in ScootFares, currency \in Currencies :
            presp = [src |-> "scoot", response |-> ScootResponse(<<fare>>, <<>>),
                     currency |-> currency]
    /\ pout = NoOutput
    /\ ppc = "input"
    /\ RouteIdle
    /\ PipeIdle

ConvertCall ==
    /\ ppc = "input" /\ presp.src = "convert"
    /\ pout' = convert_price(presp.price, presp.currency)
    /\ ppc' = "parsed"
    /\ UNCHANGED <<presp, routeVars, pipeVars>>

ScootParseIn ==
    /\ ppc = "input" /\ presp.src = "scoot"
    /\ pout' = ScootParse(presp.response, ScootOrigin, ScootDestination, presp.currency)
    /\ ppc' = "parsed"
    /\ UNCHANGED <<presp, routeVars, pipeVars>>

ConvertNext == ConvertCall \/ ScootParseIn

SpecConvert == ConvertInit /\ [][ConvertNext]_vars

\* SpecRecord: parse_lowfare_response of either scraper on a response of at
\* most MaxRecordEntries entries whose fields range over whatever the
\* upstream may send: negative amounts, a date string that starts with its
\* "T", a cityPair with an empty or a repeated airport code
AnyDateStrs == DateStrs \cup { <<"T", TimeUnit>> }
AnyFareTotals == FareTotals \cup { Some(-100) }
AnyRoundedTotals == RoundedTotals \cup { Some(-100) }

AnyNorseFares ==
    [shape : {"dict"}, departureDate : AnyDateStrs, fareTotal : AnyFareTotals,
     roundedFareTotal : AnyRoundedTotals, isSaleFare : {FALSE}]

AnyNorseCityPairs ==
    NorseCityPairs \cup { [origin |-> "LGW", destination |-> ""],
                          [origin |-> "BKK", destination |-> "BKK"] }

AnyScootFares ==
    [shape : {"dict"}, departureDate : AnyDateStrs, totalAmount : AnyFareTotals,
     noFlights : BOOLEAN, soldOut : BOOLEAN]

\* the routes of ROUTES the Scoot scrape_all_routes of the model goes through
ScootRoutes == { <<"SIN", "BKK">>, <<"BKK", "SIN">> }

RecordCounts ==
    { c \in (0..MaxRecordEntries) \X (0..MaxRecordEntries) : c[1] + c[2] <= MaxRecordEntries }

RecordInit ==
    /\ \E c \in RecordCounts :
          \/ \E pair \in AnyNorseCityPairs :
             \E economy \in [1..c[1] -> AnyNorseFares], premium \in [1..c[2] -> AnyNorseFares] :
                presp = [src |-> "norse", response |-> NorseResponse(pair, economy, premium)]
          \/ \E route \in ScootRoutes :
             \E first \in [1..c[1] -> AnyScootFares], second \in [1..c[2] -> AnyScootFares] :
                presp = [src |-> "scoot", response |-> ScootResponse(first, second),
                         origin |-> route[1], destination |-> route[2]]
    /\ pout = NoOutput
    /\ ppc = "input"
    /\ RouteIdle
    /\ PipeIdle

\* flights = self.parse_lowfare_response(response, origin, destination, currency)
\* in scrape_route, called by scrape_all_routes for a route of ROUTES
ScootRouteParseCall ==
    /\ ppc = "input" /\ presp.src = "scoot"
    /\ pout' = ScootParse(presp.response, presp.origin, presp.destination, ScootCurrency)
    /\ ppc' = "parsed"
    /\ UNCHANGED <<presp, routeVars, pipeVars>>

RecordNext == NorseParseCall \/ ScootRouteParseCall

SpecRecord == RecordInit /\ [][RecordNext]_vars

-----------------------------------------------------------------------------
(* SpecRoute, SpecPlan: scrape_route, one loop iteration per step *)

RouteStart(days, answers) ==
    /\ airline \in {"norse", "scoot"}
    /\ today \in days
    /\ months_ahead \in 1..MaxMonths
    /\ month_offset = 0
    /\ all_flights = <<>> /\ requests = <<>> /\ outcomes = <<>> /\ returned = <<>>
    /\ sleeps = <<>>
    /\ upstream \in answers[airline]
    /\ rpc = "loop"
    /\ ParseIdle
    /\ PipeIdle

\* SpecRoute: two days, every answer of the upstream
RouteTodays == { <<FirstYear, 1, 20>>, <<FirstYear, 12, 31>> }
RouteAnswers == [line \in {"norse", "scoot"} |-> { RouteOutcomes(line) }]
RouteInit == RouteStart(RouteTodays, RouteAnswers)

\* SpecPlan: every day, an upstream that gives the same answer to every request
PlanAnswers == [line \in {"norse", "scoot"} |-> { {o} : o \in RouteOutcomes(line) }]
PlanInit == RouteStart(Todays, PlanAnswers)

NorseRouteStep ==
    /\ rpc = "loop" /\ airline = "norse" /\ month_offset < months_ahead
    /\ \E outcome \in upstream :
        /\ requests' = Append(requests, NorseWindow(today, month_offset))
        /\ outcomes' = Append(outcomes, outcome)
        /\ all_flights' = NorseAfterWindow(all_flights, outcome, NorseCurrency)
        /\ sleeps' = Append(sleeps, NorseSleepAfter(outcome, NorseCurrency))
    /\ month_offset' = month_offset + 1
    /\ UNCHANGED <<airline, today, months_ahead, returned, upstream, rpc, parseVars,
                   pipeVars>>

ScootRouteStep ==
    /\ rpc = "loop" /\ airline = "scoot" /\ month_offset < months_ahead
    /\ \E outcome \in upstream :
        /\ requests' = Append(requests, ScootWindow(today, month_offset))
        /\ outcomes' = Append(outcomes, outcome)
        /\ all_flights' = ScootAfterWindow(all_flights, outcome, ScootOrigin,
                                           ScootDestination, ScootCurrency)
        /\ sleeps' = Append(sleeps, ScootSleepAfter(outcome))
    /\ month_offset' = month_offset + 1
    /\ UNCHANGED <<airline, today, months_ahead, returned, upstream, rpc, parseVars,
                   pipeVars>>

\* return all_flights, and the time.sleep(1) of scrape_all_routes behind the call
RouteReturn ==
    /\ rpc = "loop" /\ month_offset >= months_ahead
    /\ returned' = all_flights
    /\ sleeps' = Append(sleeps, RouteDelay)
    /\ rpc' = "done"
    /\ UNCHANGED <<airline, today, months_ahead, month_offset, all_flights, requests,
                   outcomes, upstream, parseVars, pipeVars>>

RouteNext == NorseRouteStep \/ ScootRouteStep \/ RouteReturn

SpecRoute == RouteInit /\ [][RouteNext]_vars
SpecPlan == PlanInit /\ [][RouteNext]_vars

-----------------------------------------------------------------------------
(* SpecPipe: runs of the scrapers, of the merger and of daily_scrape, one   *)
(* after the other; every state is a moment at which a consumer may open   *)
(* an artifact                                                             *)

PipeInit ==
    /\ day = 1
    /\ files = [p \in Paths |-> NoFile]
    /\ modified = <<>>
    /\ job = NoJob
    /\ daily = NoDaily
    /\ runs = 0
    /\ merges = NoMerges
    /\ touched = FALSE
    /\ faults = 0
    /\ ParseIdle
    /\ RouteIdle

Start(prog, cwd, by) ==
    [prog |-> prog, cwd |-> cwd, by |-> by,
     pc |-> IF prog = "merge" THEN "merge" ELSE "scrape",
     flights |-> <<>>, rundate |-> 0, targets |-> <<>>, failed |-> FALSE, out |-> <<>>,
     saved |-> <<>>, all_success |-> TRUE, status |-> 0]

DailyIdle == daily.pc \in {"off", "done"}

UserRunScoot ==
    /\ job = NoJob /\ DailyIdle /\ runs < MaxRuns
    /\ job' = Start("scoot", Root, "user")
    /\ runs' = runs + 1
    /\ touched' = TRUE
    /\ UNCHANGED <<day, files, modified, daily, merges, faults, parseVars, routeVars>>

\* somebody starts the Norse scraper, from the root or from flynorse/
UserRunNorse ==
    /\ job = NoJob /\ DailyIdle /\ runs < MaxRuns
    /\ \E cwd \in {Root, NorseDir} : job' = Start("norse", cwd, "user")
    /\ runs' = runs + 1
    /\ touched' = TRUE
    /\ UNCHANGED <<day, files, modified, daily, merges, faults, parseVars, routeVars>>

\* somebody starts the merger from the repository root
UserRunMerge ==
    /\ job = NoJob /\ DailyIdle /\ runs < MaxRuns
    /\ job' = Start("merge", Root, "user")
    /\ runs' = runs + 1
    /\ UNCHANGED <<day, files, modified, daily, merges, touched,
                   faults, parseVars, routeVars>>

\* daily_scrape.main, step 1: run_command("python flyscoot/scoot_scraper.py")
DailyRunScoot ==
    /\ job = NoJob /\ DailyIdle /\ runs + 3 <= MaxRuns
    /\ job' = Start("scoot", Root, "daily")
    /\ daily' = [pc |-> "scoot", results |-> <<>>, scraped |-> <<>>, sinks |-> {},
                 code |-> 0]
    /\ runs' = runs + 1
    /\ touched' = TRUE
    /\ UNCHANGED <<day, files, modified, merges, faults, parseVars, routeVars>>

\* step 2: run_command("python flynorse/norse_scraper.py")
DailyRunNorse ==
    /\ job = NoJob /\ daily.pc = "norse"
    /\ job' = Start("norse", Root, "daily")
    /\ daily' = [daily EXCEPT !.pc = "norse_run"]
    /\ runs' = runs + 1
    /\ touched' = TRUE
    /\ UNCHANGED <<day, files, modified, merges, faults, parseVars, routeVars>>

\* step 3: run_command("python merge_flights.py")
DailyRunMerge ==
    /\ job = NoJob /\ daily.pc = "merge"
    /\ job' = Start("merge", Root, "daily")
    /\ daily' = [daily EXCEPT !.pc = "merge_run"]
    /\ runs' = runs + 1
    /\ UNCHANGED <<day, files, modified, merges, touched, faults, parseVars, routeVars>>

\* the summary and the exit code
DailyReturn ==
    /\ daily.pc = "summary"
    /\ daily' = [daily EXCEPT !.pc = "done",
                              !.code = IF \A i \in DOMAIN daily.results : daily.results[i]
                                       THEN 0 ELSE 1]
    /\ UNCHANGED <<day, files, modified, job, runs, merges, touched,
                   faults, parseVars, routeVars>>

\* a scraper's main up to the choice of the file names: datetime.now(), which
\* never goes back, scrape_all_routes,
\* then the branch on an empty result
ScraperScrape ==
    /\ job.prog \in {"scoot", "norse"} /\ job.pc = "scrape"
    /\ \E now \in day..MaxDay :
       \E answers \in [1..PipeWindows -> PipeOutcomes(job.prog)] :
         LET flights == scrape_all_routes(job.prog, answers)
         IN /\ day' = now
            /\ job' = [job EXCEPT
                      !.flights = flights,
                      !.failed = \A i \in DOMAIN answers : answers[i].kind # "ok",
                      !.rundate = now,
                      !.targets = IF flights # <<>>
                                  THEN << DatedName(job.prog, job.cwd, now),
                                          CurrentName(job.cwd) >>
                                  ELSE <<>>,
                      !.pc = IF flights # <<>> THEN "open" ELSE "exit"]
    /\ UNCHANGED <<files, modified, daily, runs, merges, touched,
                   faults, parseVars, routeVars>>

\* with open(filename, "w") as f
ScraperOpen ==
    /\ job.prog \in {"scoot", "norse"} /\ job.pc = "open"
    /\ files' = Truncate(files, Head(job.targets))
    /\ modified' = Touch(modified, Head(job.targets))
    /\ job' = [job EXCEPT !.pc = "dump"]
    /\ UNCHANGED <<day, daily, runs, merges, touched, faults, parseVars, routeVars>>

\* json.dump(flights_data, f) and the close: the buffer reaches the file in
\* one piece or in several, one flush per step
ScraperDump ==
    /\ job.prog \in {"scoot", "norse"} /\ job.pc = "dump"
    /\ LET path == Head(job.targets)
           text == Serialize(job.flights)
       IN \E k \in {NextFlush(text, Len(files[path].text))} :
            /\ files' = Flush(files, path, text, k)
            /\ job' = IF k < Len(text) THEN job
                      ELSE [job EXCEPT !.targets = Tail(job.targets),
                                       !.pc = IF Tail(job.targets) = <<>> THEN "exit"
                                              ELSE "open"]
    /\ UNCHANGED <<day, modified, daily, runs, merges, touched, faults,
                   parseVars, routeVars>>

\* merge_flights.main up to the first sink: merge_flights(), then the
\* return on an empty result
MergerMerge ==
    /\ job.prog = "merge" /\ job.pc = "merge"
    /\ LET merged_flights == merge_flights(files, modified)
       IN job' = [job EXCEPT
                    !.flights = merged_flights,
                    !.targets = IF merged_flights # <<>> THEN OutputFiles ELSE <<>>,
                    !.pc = IF merged_flights # <<>> THEN "open" ELSE "exit"]
    /\ UNCHANGED <<day, files, modified, daily, runs, merges, touched,
                   faults, parseVars, routeVars>>

\* save_merged_flights: with open(output_file, 'w') as f
MergerOpen ==
    /\ job.prog = "merge" /\ job.pc = "open"
    /\ files' = Truncate(files, Head(job.targets))
    /\ modified' = Touch(modified, Head(job.targets))
    /\ job' = [job EXCEPT !.pc = "dump"]
    /\ UNCHANGED <<day, daily, runs, merges, touched, faults, parseVars, routeVars>>

\* the for loop of save_merged_flights goes on with the sinks that are left
NextSinksNone(targets) == <<>>

NextSinks(targets) == Tail(targets)

\* save_merged_flights: json.dump(flights, f) and the close
MergerDump ==
    /\ job.prog = "merge" /\ job.pc = "dump"
    /\ LET path == Head(job.targets)
           text == Serialize(job.flights)
       IN \E k \in {NextFlush(text, Len(files[path].text))} :
            /\ files' = Flush(files, path, text, k)
            /\ job' = IF k < Len(text) THEN job
                      ELSE [job EXCEPT !.targets = NextSinks(job.targets),
                                       !.out = Append(job.out, [path |-> path,
                                                                flights |-> job.flights]),
                                       !.saved = Append(job.saved, TRUE),
                                       !.pc = IF NextSinks(job.targets) = <<>>
                                              THEN "exit" ELSE "open"]
    /\ UNCHANGED <<day, modified, daily, runs, merges, touched, faults,
                   parseVars, routeVars>>

\* save_merged_flights: open or json.dump raises, the except clause sets
\* all_success = False; the file is left as the failed call left it
MergerWriteFails ==
    /\ job.prog = "merge" /\ job.pc \in {"open", "dump"} /\ faults < MaxFaults
    /\ faults' = faults + 1
    /\ job' = [job EXCEPT !.targets = NextSinks(job.targets),
                          !.out = Append(job.out, [path |-> Head(job.targets),
                                                   flights |-> job.flights]),
                          !.saved = Append(job.saved, FALSE),
                          !.all_success = FALSE,
                          !.pc = IF NextSinks(job.targets) = <<>> THEN "exit" ELSE "open"]
    /\ UNCHANGED <<day, files, modified, daily, runs, merges, touched,
                   parseVars, routeVars>>

\* a scraper's main: open or json.dump raises, nothing catches it, the
\* process ends with exit status 1
ScraperWriteFails ==
    /\ job.prog \in {"scoot", "norse"} /\ job.pc \in {"open", "dump"}
    /\ faults < MaxFaults
    /\ faults' = faults + 1
    /\ job' = [job EXCEPT !.pc = "exit", !.status = 1]
    /\ UNCHANGED <<day, files, modified, daily, runs, merges, touched,
                   parseVars, routeVars>>

\* the paths save_merged_flights wrote without an exception
SavedSinks(out, saved) == { out[i].path : i \in { j \in DOMAIN out : saved[j] } }

\* the process ends; run_command returns True for exit status 0
JobExit ==
    /\ job.prog # "none" /\ job.pc = "exit"
    /\ job' = NoJob
    /\ daily' = IF job.by # "daily" THEN daily
                ELSE [daily EXCEPT
                        !.results = Append(daily.results, job.status = 0),
                        !.scraped = IF job.prog = "merge" THEN daily.scraped
                                    ELSE Append(daily.scraped,
                                                IF job.status = 0 THEN job.flights
                                                ELSE <<>>),
                        !.sinks = IF job.prog = "merge"
                                  THEN SavedSinks(job.out, job.saved) ELSE daily.sinks,
                        !.pc = IF daily.pc = "scoot" THEN "norse"
                               ELSE IF daily.pc = "norse_run" THEN "merge"
                               ELSE "summary"]
    /\ merges' = IF job.prog # "merge" THEN merges
                 ELSE [prev |-> merges.cur, cur |-> Some(job.out), fresh |-> ~touched]
    /\ touched' = IF job.prog = "merge" THEN FALSE ELSE touched
    /\ UNCHANGED <<day, files, modified, runs, faults, parseVars, routeVars>>

PipeNext ==
    \/ UserRunScoot \/ UserRunNorse \/ UserRunMerge
    \/ DailyRunScoot \/ DailyRunNorse \/ DailyRunMerge \/ DailyReturn
    \/ ScraperScrape \/ ScraperOpen \/ ScraperDump
    \/ MergerMerge \/ MergerOpen \/ MergerDump
    \/ JobExit

SpecPipe == PipeInit /\ [][PipeNext]_vars

\* SpecDaily: runs of daily_scrape and of the merger in which a write may
\* raise (a full disk, a directory that is missing or not writable)
DailyNext ==
    \/ DailyRunScoot \/ DailyRunNorse \/ DailyRunMerge \/ DailyReturn
    \/ UserRunMerge
    \/ ScraperScrape \/ ScraperOpen \/ ScraperDump \/ ScraperWriteFails
    \/ MergerMerge \/ MergerOpen \/ MergerDump \/ MergerWriteFails
    \/ JobExit

SpecDaily == PipeInit /\ [][DailyNext]_vars

-----------------------------------------------------------------------------
(* Helpers of the properties *)

\* the flights a window adds to the route's result
RecordsOfOutcome(line, outcome) ==
    IF outcome.kind # "ok" THEN <<>>
    ELSE IF line = "norse"
         THEN (IF NorseParse(outcome.response, NorseCurrency).raised THEN <<>>
               ELSE NorseParse(outcome.response, NorseCurrency).flights)
         ELSE ScootParse(outcome.response, ScootOrigin, ScootDestination,
                         ScootCurrency).flights

RECURSIVE RecordsOfOutcomes(_, _)
RecordsOfOutcomes(line, os) ==
    IF os = <<>> THEN <<>>
    ELSE RecordsOfOutcome(line, Head(os)) \o RecordsOfOutcomes(line, Tail(os))

\* every (date, fare bucket) entry of a raw response, in document order
RECURSIVE BucketEntries(_)
BucketEntries(buckets) ==
    IF buckets = <<>> THEN <<>>
    ELSE [i \in 1..Len(Head(buckets).fares) |->
             [bucket |-> Head(buckets).name, fare |-> Head(buckets).fares[i]]]
         \o BucketEntries(Tail(buckets))

RECURSIVE NorseBuckets(_)
NorseBuckets(data) ==
    IF data = <<>> THEN <<>>
    ELSE [i \in 1..Len(Head(data).cabins) |->
             [name |-> Head(data).cabins[i].cabinName,
              fares |-> Head(data).cabins[i].lowFareAmounts]]
         \o NorseBuckets(Tail(data))

ScootBuckets(markets) ==
    [i \in 1..Len(markets) |-> [name |-> i, fares |-> markets[i].lowFares]]

InputEntries ==
    IF presp.src = "norse" THEN BucketEntries(NorseBuckets(presp.response.data))
    ELSE BucketEntries(ScootBuckets(presp.response.lowFareSearchMarkets))

\* the entry carries a non-null price
Priced(e) ==
    /\ e.fare.shape = "dict"
    /\ IF presp.src = "norse" THEN e.fare.fareTotal # None ELSE e.fare.totalAmount # None

\* the source marks the entry as without flights or sold out
Unavailable(e) ==
    presp.src = "scoot" /\ e.fare.shape = "dict" /\ (e.fare.noFlights \/ e.fare.soldOut)

\* the calendar date an entry is for
EntryDate(e) ==
    IF e.fare.shape # "dict" \/ e.fare.departureDate = <<>> THEN <<>>
    ELSE <<e.fare.departureDate[1]>>

CalendarDates == { <<D1>>, <<D2>> }

RECURSIVE MonthAfter(_, _)
MonthAfter(ym, k) ==
    IF k = 0 THEN ym
    ELSE MonthAfter(IF ym[2] = 12 THEN <<ym[1] + 1, 1>> ELSE <<ym[1], ym[2] + 1>>, k - 1)

-----------------------------------------------------------------------------
(* C1: in scrape_route of either scraper a window whose fetch fails adds   *)
(* no record, every window of the route is still requested, and the        *)
(* returned list is the concatenation, in window order, of the records of  *)
(* the windows that succeeded.                                             *)
C1_FailedWindowIsolated ==
    rpc \in {"loop", "done"} =>
        /\ Len(requests) = month_offset /\ Len(outcomes) = month_offset
        /\ all_flights = RecordsOfOutcomes(airline, outcomes)
        /\ rpc = "done" =>
             /\ Len(requests) = months_ahead
             /\ returned = RecordsOfOutcomes(airline, outcomes)

\* a route of three windows whose second fetch got HTTP 403: the first and
\* the third window's records are returned
C1_Witness ==
    /\ rpc = "done" /\ Len(outcomes) = 3
    /\ outcomes[1].kind = "ok" /\ outcomes[2] = HttpError /\ outcomes[3].kind = "ok"
    /\ RecordsOfOutcome(airline, outcomes[1]) # <<>>
    /\ RecordsOfOutcome(airline, outcomes[3]) # <<>>
    /\ returned = RecordsOfOutcome(airline, outcomes[1])
                  \o RecordsOfOutcome(airline, outcomes[3])

(* C2: parse_lowfare_response (Norse and Scoot) emits no record for a      *)
(* date whose entries all lack a price or are flagged noFlights/soldOut,   *)
(* every record it emits comes from a priced, available entry of its date, *)
(* and it emits at most as many records as the input has priced entries.   *)
C2_NoRecordWithoutPrice ==
    ppc = "parsed" =>
        LET es == InputEntries
            usable == { i \in DOMAIN es : Priced(es[i]) /\ ~Unavailable(es[i]) }
        IN /\ Len(pout.flights) <= Cardinality({ i \in DOMAIN es : Priced(es[i]) })
           /\ Len(pout.flights) <= Cardinality(usable)
           /\ \A k \in DOMAIN pout.flights :
                \E i \in usable : EntryDate(es[i]) = pout.flights[k].departure_date
           /\ \A d \in CalendarDates :
                (\A i \in DOMAIN es : EntryDate(es[i]) = d => i \notin usable)
                    => \A k \in DOMAIN pout.flights : pout.flights[k].departure_date # d

\* a response with a priced entry and an entry without price (or sold out)
\* for another date: one record, for the priced date
C2_Witness ==
    /\ ppc = "parsed"
    /\ Len(InputEntries) = 2
    /\ \E i, j \in DOMAIN InputEntries :
         /\ Priced(InputEntries[i]) /\ ~Unavailable(InputEntries[i])
         /\ InputEntries[j].fare.shape = "dict"
         /\ ~Priced(InputEntries[j]) \/ Unavailable(InputEntries[j])
         /\ EntryDate(InputEntries[i]) = <<D1>> /\ EntryDate(InputEntries[j]) = <<D2>>
    /\ Len(pout.flights) = 1
    /\ pout.flights[1].departure_date = <<D1>>

(* C3: NorseScraper.scrape_route plans exactly months_ahead windows, the   *)
(* i-th for the i-th calendar month counted from today's (the year         *)
(* advancing after December); the first starts on today, the others on the *)
(* 1st, each ends on the last day of its month, none before today's month. *)
C3_NorseWindows ==
    (airline = "norse" /\ rpc \in {"loop", "done"}) =>
        /\ Len(requests) = month_offset
        /\ rpc = "done" => Len(requests) = months_ahead
        /\ \A i \in DOMAIN requests :
             LET ym == MonthAfter(<<today[1], today[2]>>, i - 1)
                 w == requests[i]
             IN /\ w.start_date = IF i = 1 THEN today ELSE <<ym[1], ym[2], 1>>
                /\ w.end_date = <<ym[1], ym[2], DaysInMonth(ym[1], ym[2])>>
                /\ ToOrdinal(w.end_date) >= ToOrdinal(<<today[1], today[2], 1>>)
                /\ ToOrdinal(w.start_date) <= ToOrdinal(w.end_date)

\* today = 2026-01-20 and months_ahead = 2
C3_Witness ==
    /\ airline = "norse" /\ rpc = "done"
    /\ today = <<2026, 1, 20>> /\ months_ahead = 2
    /\ requests = << [start_date |-> <<2026, 1, 20>>, end_date |-> <<2026, 1, 31>>],
                     [start_date |-> <<2026, 2, 1>>, end_date |-> <<2026, 2, 28>>] >>

\* the records in the text of a file
RecordsIn(text) ==
    LET recs == SelectSeq(text, LAMBDA t : t.tok = "rec")
    IN [i \in 1..Len(recs) |-> recs[i].rec]

DatedPaths == { p \in Paths : p.date # 0 }

\* the dated snapshot of a source modified last, among those of dirs
LatestDated(prog, dirs) ==
    LET have == { p \in DatedPaths :
                    files[p].exists /\ p.head = FilePrefix(prog) /\ p.dir \in dirs }
    IN IF have = {} THEN None
       ELSE Some(CHOOSE p \in have :
                    \A q \in have : MTime(modified, q) <= MTime(modified, p))

\* a snapshot a failed write left torn is no JSON document: it holds no record
SnapshotRecords(prog, dirs) ==
    IF IsNone(LatestDated(prog, dirs)) THEN <<>>
    ELSE IF ~Complete(files[Val(LatestDated(prog, dirs))].text) THEN <<>>
    ELSE RecordsIn(files[Val(LatestDated(prog, dirs))].text)

SameRouteAndDate(a, b) ==
    /\ a.origin = b.origin /\ a.destination = b.destination
    /\ a.departure_date = b.departure_date

SameKey(a, b) == a.airline = b.airline /\ SameRouteAndDate(a, b)

\* merge_flights has returned and save_merged_flights has not begun
JustMerged ==
    job.prog = "merge" /\ job.pc \in {"open", "exit"} /\ job.out = <<>>
    /\ job.targets \in {OutputFiles, <<>>}

(* C4: no two records of a list merge_flights returns, and no two records  *)
(* one scraper run collects, share (airline, origin, destination,          *)
(* departure_date).                                                        *)
C4_NoDuplicateKeys ==
    (job.prog # "none" /\ job.pc \notin {"scrape", "merge"}) =>
        \A i, j \in DOMAIN job.flights :
            SameKey(job.flights[i], job.flights[j]) => i = j

(* C5: merge_flights returns every record of the Scoot snapshot and of the *)
(* Norse snapshot it loads, unchanged and in order; records of the two     *)
(* for the same origin, destination and date are both kept and differ in   *)
(* their airline.                                                          *)
C5_BothSourcesKept ==
    JustMerged =>
        LET scoot == SnapshotRecords("scoot", {Root})
            norse == SnapshotRecords("norse", {NorseDir})
        IN /\ job.flights = scoot \o norse
           /\ \A i \in DOMAIN scoot : \A j \in DOMAIN norse :
                SameRouteAndDate(scoot[i], norse[j]) =>
                    /\ job.flights[i] = scoot[i]
                    /\ job.flights[Len(scoot) + j] = norse[j]
                    /\ scoot[i].airline # norse[j].airline

\* both snapshots hold a record for SIN-BKK on the same date
C5_Witness ==
    /\ JustMerged
    /\ \E i \in DOMAIN SnapshotRecords("scoot", {Root}) :
       \E j \in DOMAIN SnapshotRecords("norse", {NorseDir}) :
          /\ SameRouteAndDate(SnapshotRecords("scoot", {Root})[i],
                              SnapshotRecords("norse", {NorseDir})[j])
          /\ Len(job.flights) = Len(SnapshotRecords("scoot", {Root}))
                                + Len(SnapshotRecords("norse", {NorseDir}))

(* C6: when daily_scrape.main has ended and both scrapers collected        *)
(* records, flights.json is the union of the latest dated snapshot of each *)
(* source and holds every record the two scrapers wrote in this run.       *)
C6_MergedHoldsThisRun ==
    (daily.pc = "done" /\ \A i \in DOMAIN daily.scraped : daily.scraped[i] # <<>>) =>
        LET merged == files[Path(Root, "flights", 0)]
        IN /\ merged.exists /\ Complete(merged.text)
           /\ Decode(merged.text) = SnapshotRecords("scoot", {Root, NorseDir})
                                    \o SnapshotRecords("norse", {Root, NorseDir})
           /\ \A i \in DOMAIN daily.scraped : \A k \in DOMAIN daily.scraped[i] :
                \E m \in DOMAIN Decode(merged.text) :
                    Decode(merged.text)[m] = daily.scraped[i][k]

(* C7: two merger runs in a row, no scraper started in between, write the  *)
(* same record list, in the same order, to the same sinks.                 *)
C7_MergeIdempotent ==
    (merges.fresh /\ ~IsNone(merges.prev) /\ ~IsNone(merges.cur)) =>
        Val(merges.prev) = Val(merges.cur)

\* the second of two such runs has written both sinks
C7_Witness ==
    /\ merges.fresh /\ ~IsNone(merges.prev) /\ ~IsNone(merges.cur)
    /\ Len(Val(merges.cur)) = Len(OutputFiles)
    /\ Val(merges.cur)[1].flights # <<>>

(* C8: at every moment every artifact that exists holds a whole list: a    *)
(* reader that opens it then finds the complete previous or the complete   *)
(* new content.                                                            *)
C8_NeverTorn ==
    \A p \in Paths : files[p].exists => Complete(files[p].text)

(* C9: a dated snapshot that was written whole is never changed by a      *)
(* later step of any run.                                                  *)
C9_DatedNeverChanges ==
    [][\A p \in DatedPaths :
          (files[p].exists /\ Complete(files[p].text)) => files'[p] = files[p]]_vars

(* C10: a scraper run whose requests all failed has written, when it       *)
(* ends, an empty dated snapshot for its run date and an empty current     *)
(* artifact.                                                               *)
C10_EmptyRunWritesSnapshot ==
    (job.prog \in {"scoot", "norse"} /\ job.pc = "exit" /\ job.failed) =>
        LET dated == files[DatedName(job.prog, job.cwd, job.rundate)]
            current == files[CurrentName(job.cwd)]
        IN /\ dated.exists /\ Complete(dated.text) /\ Decode(dated.text) = <<>>
           /\ current.exists /\ Complete(current.text) /\ Decode(current.text) = <<>>

(* C11: between two successive requests of scrape_route for one route the  *)
(* rate-limit delay of 0.5 s has passed, whatever the earlier request      *)
(* produced, and 1 s passes between the last request of a route and the    *)
(* first of the next.                                                      *)
C11_DelayAfterEveryRequest ==
    /\ \A i \in 1..(Len(requests) - 1) : sleeps[i] >= RateLimitDelay
    /\ rpc = "done" => sleeps[Len(requests)] + sleeps[Len(requests) + 1] >= RouteDelay

(* C12: daily_scrape.main returns 0 exactly when both scrapers wrote        *)
(* records they fetched and the merger wrote the primary sink flights.json. *)
C12_SuccessIffFetchedAndWritten ==
    daily.pc = "done" =>
        (daily.code = 0 <=>
            /\ \A i \in DOMAIN daily.scraped : daily.scraped[i] # <<>>
            /\ Path(Root, "flights", 0) \in daily.sinks)

\* save_merged_flights has returned
Saved == job.prog = "merge" /\ job.pc = "exit" /\ job.flights # <<>>

(* C13: save_merged_flights hands the same list to every sink of           *)
(* output_files, in order, whether or not an earlier sink failed; a sink   *)
(* it wrote holds that list when it returns; it returns True exactly when  *)
(* no write raised.                                                        *)
C13_SinksIndependent ==
    Saved =>
        /\ [i \in DOMAIN job.out |-> job.out[i].path] = OutputFiles
        /\ \A i \in DOMAIN job.out : job.out[i].flights = job.flights
        /\ \A i \in DOMAIN job.saved :
              job.saved[i] => /\ Complete(files[OutputFiles[i]].text)
                              /\ Decode(files[OutputFiles[i]].text) = job.flights
        /\ job.all_success <=> \A i \in DOMAIN job.saved : job.saved[i]

\* the first sink failed, the second was written
C13_Witness ==
    /\ Saved /\ job.saved = <<FALSE, TRUE>> /\ ~job.all_success
    /\ Decode(files[OutputFiles[2]].text) = job.flights

(* C14: in daily_scrape.main all three steps are run whatever failed, and  *)
(* when the Norse step has failed the Scoot step's result and the          *)
(* artifacts the Scoot step wrote, dated and current, are as it left them. *)
C14_FailureIsolated ==
    /\ daily.pc = "done" => Len(daily.results) = 3
    /\ (/\ job.by = "daily" /\ job.prog = "norse" /\ job.pc = "exit" /\ job.status # 0
        /\ daily.scraped[1] # <<>>) =>
           /\ daily.results[1]
           /\ SnapshotRecords("scoot", {Root}) = daily.scraped[1]
           /\ Complete(files[CurrentName(Root)].text)
           /\ Decode(files[CurrentName(Root)].text) = daily.scraped[1]

\* no file of the source is where merge_flights looks for its snapshots
NoSnapshot(prog, dir) == IsNone(LatestDated(prog, {dir}))

(* C15: with no snapshot file of one source, merge_flights returns the     *)
(* records of the other source's latest snapshot and the merger goes on    *)
(* without an error; with no snapshot file at all it returns the empty     *)
(* list.                                                                   *)
C15_MissingSourceSkipped ==
    JustMerged =>
        /\ job.status = 0
        /\ NoSnapshot("norse", NorseDir) =>
              job.flights = SnapshotRecords("scoot", {Root})
        /\ NoSnapshot("scoot", Root) =>
              job.flights = SnapshotRecords("norse", {NorseDir})
        /\ (NoSnapshot("scoot", Root) /\ NoSnapshot("norse", NorseDir)) =>
              job.flights = <<>> /\ job.pc = "exit"

\* the Scoot snapshot alone exists and its records were returned
C15_Witness ==
    /\ JustMerged /\ NoSnapshot("norse", NorseDir) /\ ~NoSnapshot("scoot", Root)
    /\ job.flights # <<>> /\ job.flights = SnapshotRecords("scoot", {Root})

\* the entries of a Norse response the parser makes records of
NorseEmitting ==
    IF presp.response.data = <<>> THEN <<>>
    ELSE IF \E d \in DOMAIN presp.response.data :
               \/ presp.response.data[d].cityPair.origin = ""
               \/ presp.response.data[d].cityPair.destination = ""
         THEN <<>>
         ELSE SelectSeq(InputEntries, LAMBDA e : Priced(e) /\ EntryDate(e) # <<>>)

\* roundedFareTotal when the entry has one, fareTotal otherwise
ClaimedPrice(fare) ==
    IF fare.roundedFareTotal # None THEN Val(fare.roundedFareTotal) ELSE Val(fare.fareTotal)

\* the scenario: one route entry, two date entries
ScenarioResponse ==
    NorseResponse(LgwBkk, << NFare(Day1, Some(49357), Some(49400)),
                             NFare(Day2, None, None) >>, <<>>)

(* C16: the price of every record NorseScraper.parse_lowfare_response      *)
(* emits is the entry's roundedFareTotal when the entry has one and its    *)
(* fareTotal otherwise; the scenario's response gives one record, of price *)
(* 494.                                                                    *)
C16_RoundedPricePreferred ==
    (ppc = "parsed" /\ presp.src = "norse" /\ ~pout.raised) =>
        /\ Len(pout.flights) = Len(NorseEmitting)
        /\ \A i \in DOMAIN pout.flights :
              pout.flights[i].price = ClaimedPrice(NorseEmitting[i].fare)
        /\ presp.response = ScenarioResponse =>
              Len(pout.flights) = 1 /\ pout.flights[1].price = 49400

\* the whole number of hundredths nearest to n / d, the even one of two
Nearest(n, d) ==
    CHOOSE h \in 0..(n \div d + 1) :
        LET off == IF h * d >= n THEN h * d - n ELSE n - h * d
        IN 2 * off <= d /\ (2 * off = d => h % 2 = 0)

\* round(p / rate[c] * rate[t], 2), in hundredths
Converted(p, c, t) == Nearest(p * EXCHANGE_RATES[t], EXCHANGE_RATES[c])

(* C17: for a price p in a currency c of the rate table convert_price      *)
(* returns round(p / rate[c] * rate[t], 2) for t = USD, EUR, GBP, and a    *)
(* record of the Scoot parser carries these three amounts for its price    *)
(* and currency.                                                           *)
C17_ConvertedAmounts ==
    (ppc = "parsed" /\ presp.currency \in DOMAIN EXCHANGE_RATES) =>
        /\ presp.src = "convert" =>
              pout = [price_usd |-> Converted(presp.price, presp.currency, "USD"),
                      price_eur |-> Converted(presp.price, presp.currency, "EUR"),
                      price_gbp |-> Converted(presp.price, presp.currency, "GBP")]
        /\ presp.src = "scoot" =>
              \A i \in DOMAIN pout.flights :
                 LET r == pout.flights[i]
                 IN /\ r.currency = presp.currency
                    /\ r.price_usd = Converted(r.price, r.currency, "USD")
                    /\ r.price_eur = Converted(r.price, r.currency, "EUR")
                    /\ r.price_gbp = Converted(r.price, r.currency, "GBP")

\* 0.40 US dollars: 0.40 / 0.75 * 0.68 = 0.3627, 0.40 / 0.75 * 0.57 = 0.304
C17_Witness ==
    /\ ppc = "parsed" /\ presp.src = "scoot" /\ presp.currency = "USD"
    /\ Len(pout.flights) = 1 /\ pout.flights[1].price = 40
    /\ pout.flights[1].price_usd = 40 /\ pout.flights[1].price_eur = 36
    /\ pout.flights[1].price_gbp = 30

\* the first and the last day, as ordinals, a point query asks about
QueryFrom(q) == ToOrdinal(q.departure_date) - q.days_backward
QueryTo(q) == ToOrdinal(q.departure_date) + q.days_forward

\* the last day of the last month of the horizon
HorizonEnd ==
    LET ym == MonthAfter(<<today[1], today[2]>>, months_ahead - 1)
    IN ToOrdinal(<<ym[1], ym[2], DaysInMonth(ym[1], ym[2])>>)

(* C18: the date ranges of the point queries ScootScraper.scrape_route     *)
(* issues for a route do not overlap one another, and every date from      *)
(* today to the end of the last month of the horizon lies in one of them.  *)
C18_ScootQueriesCoverHorizon ==
    (airline = "scoot" /\ rpc = "done") =>
        /\ \A i, j \in DOMAIN requests :
              i < j => QueryTo(requests[i]) < QueryFrom(requests[j])
        /\ \A d \in ToOrdinal(today)..HorizonEnd :
              \E i \in DOMAIN requests :
                 QueryFrom(requests[i]) <= d /\ d <= QueryTo(requests[i])

\* the well-formed entries of a response that carry a price, a date and no
\* mark of being unavailable
WellFormedEntries ==
    IF presp.src = "norse" THEN NorseEmitting
    ELSE SelectSeq(InputEntries,
                   LAMBDA e : Priced(e) /\ ~Unavailable(e) /\ EntryDate(e) # <<>>)

\* what the window of the response adds to the route's result
WindowRecords == IF pout.raised THEN <<>> ELSE pout.flights

(* C19: a garbled entry of a response is skipped alone: the window yields  *)
(* one record for every well-formed, priced entry of the response, for     *)
(* those before and for those after the garbled one.                       *)
C19_GarbledEntrySkippedAlone ==
    (ppc = "parsed" /\ presp.src \in {"norse", "scoot"}) =>
        /\ Len(WindowRecords) = Len(WellFormedEntries)
        /\ \A i \in DOMAIN WindowRecords :
              WindowRecords[i].departure_date = EntryDate(WellFormedEntries[i])

\* the current artifacts the sources keep in their own directories: the
\* flights.json of flynorse/ while it holds what the Norse scraper wrote there
SourceCurrent ==
    { p \in {CurrentName(NorseDir)} :
        /\ ~NoSnapshot("norse", NorseDir)
        /\ files[p].exists /\ Complete(files[p].text)
        /\ Decode(files[p].text) = SnapshotRecords("norse", {NorseDir}) }

(* C20: no step of a merger run changes a dated snapshot of a source or    *)
(* the current flights.json a source keeps in its own directory.           *)
C20_MergeLeavesSnapshots ==
    [][job.prog = "merge" =>
          \A p \in DatedPaths \cup SourceCurrent : files'[p] = files[p]]_vars


(* C21: every record either parser emits has a price that is not          *)
(* negative, whatever amounts the entries of the response carry.           *)
C21_PriceNeverNegative ==
    ppc = "parsed" => \A i \in DOMAIN pout.flights : pout.flights[i].price >= 0

(* C22: every record either scraper emits has an origin that differs from  *)
(* its destination, the Norse records included, whose airports come from   *)
(* the cityPair of the response.                                           *)
C22_OriginDiffersFromDestination ==
    ppc = "parsed" =>
        \A i \in DOMAIN pout.flights : pout.flights[i].origin # pout.flights[i].destination

(* C23: every record either scraper emits has a non-empty airline, origin, *)
(* destination and departure date; a response whose cityPair lacks an      *)
(* airport yields no record, and an entry without a departureDate yields   *)
(* none.                                                                   *)
C23_RecordFieldsNonEmpty ==
    ppc = "parsed" =>
        /\ \A i \in DOMAIN pout.flights :
              LET r == pout.flights[i]
              IN /\ r.airline # "" /\ r.origin # "" /\ r.destination # ""
                 /\ r.departure_date # EmptyStr
        /\ (presp.src = "norse" /\ \E d \in DOMAIN presp.response.data :
               \/ presp.response.data[d].cityPair.origin = ""
               \/ presp.response.data[d].cityPair.destination = "")
              => pout.flights = <<>>
        /\ (\A i \in DOMAIN InputEntries : InputEntries[i].fare.departureDate = EmptyStr)
              => pout.flights = <<>>

\* a currency code EXCHANGE_RATES has no rate for
UnknownCurrency(c) == c \notin DOMAIN EXCHANGE_RATES

(* C24: for a currency that is not in EXCHANGE_RATES convert_price raises  *)
(* nothing and returns the amounts it returns for the same price in SGD,   *)
(* and the record the Scoot parser emits keeps the currency code it was    *)
(* given beside these amounts.                                             *)
C24_UnknownCurrencyAsSGD ==
    (ppc = "parsed" /\ UnknownCurrency(presp.currency)) =>
        /\ presp.src = "convert" =>
              pout = [price_usd |-> Converted(presp.price, "SGD", "USD"),
                      price_eur |-> Converted(presp.price, "SGD", "EUR"),
                      price_gbp |-> Converted(presp.price, "SGD", "GBP")]
        /\ presp.src = "scoot" =>
              /\ ~pout.raised
              /\ Len(pout.flights) = Len(WellFormedEntries)
              /\ \A i \in DOMAIN pout.flights :
                    LET r == pout.flights[i]
                    IN /\ r.currency = presp.currency
                       /\ r.price_usd = Converted(r.price, "SGD", "USD")
                       /\ r.price_eur = Converted(r.price, "SGD", "EUR")
                       /\ r.price_gbp = Converted(r.price, "SGD", "GBP")

\* 0.40 in a currency without a rate: 0.40 * 0.75 = 0.30, 0.40 * 0.68 = 0.272,
\* 0.40 * 0.57 = 0.228
C24_Witness ==
    /\ ppc = "parsed" /\ presp.src = "scoot" /\ presp.currency = "JPY"
    /\ Len(pout.flights) = 1 /\ pout.flights[1].price = 40
    /\ pout.flights[1].currency = "JPY"
    /\ pout.flights[1].price_usd = 30 /\ pout.flights[1].price_eur = 27
    /\ pout.flights[1].price_gbp = 23

====
